---- MODULE Spec2Model ----
(***************************************************************************)
(* A model of the blackjack rules engine: Card/Deck (deck.rs), Hand and    *)
(* DealerHand with the soft/hard score (hand.rs), Context and the          *)
(* GameState machine with its Action log (game.rs).                        *)
(*                                                                         *)
(* Every operation of the source is a pure function from a value to a      *)
(* Result; it is modelled as an operator of the same name that returns     *)
(* either Err(kind) or Ok(value).  The caller (main.rs, the tests) holds   *)
(* one GameState and replaces it by the state a successful call returns.   *)
(* The tests of deck.rs and hand.rs hold a Deck or a Hand instead and call *)
(* its methods; what a method returns is kept beside the value it was      *)
(* called on, which a &self method cannot change.                          *)
(***************************************************************************)
EXTENDS Integers, Sequences, FiniteSets, TLC

VARIABLES state,    \* the GameState the caller holds: [tag, ctx]
          op,       \* the transition function called last
          err,      \* "None" when that call returned Ok, else the error kind
          actions,  \* the Vector<Action> that call returned (<<>> on Err)
          held_hand,  \* the Hand a test of hand.rs holds
          held_deck,  \* the Deck (its cards) a test of deck.rs holds
          returned,   \* what the last Hand or Deck method returned
          animations, \* Blackjack.animations of the Godot front end
          tweens      \* the tweens play_animation started that have not completed

vars == <<state, op, err, actions, held_hand, held_deck, returned,
          animations, tweens>>

----------------------------------------------------------------------------
(* Bounds of the model                                                     *)

\* longest stacked deck a test context is built from
MaxDeck == 6

\* longest hand a test of hand.rs builds
MaxHand == 5

\* longest stacked deck a test shuffles in every possible order
MaxShuffled == 4

\* longest hand of a Context whose predicates are called directly
MaxContextHand == 3

----------------------------------------------------------------------------
(* deck.rs                                                                 *)

Suits == <<"Heart", "Diamond", "Spade", "Club">>

Ranks == <<"Two", "Three", "Four", "Five", "Six", "Seven", "Eight", "Nine",
           "Ten", "Jack", "Queen", "King", "Ace">>

Range(s) == { s[i] : i \in DOMAIN s }

Card(suit, rank) == [suit |-> suit, rank |-> rank]

to_value(rank) ==
    CASE rank = "Two"   -> 2
      [] rank = "Three" -> 3
      [] rank = "Four"  -> 4
      [] rank = "Five"  -> 5
      [] rank = "Six"   -> 6
      [] rank = "Seven" -> 7
      [] rank = "Eight" -> 8
      [] rank = "Nine"  -> 9
      [] rank \in {"Ten", "King", "Queen", "Jack"} -> 10
      [] rank = "Ace"   -> 11

Err(kind) == [err |-> kind]

Ok(value) == [err |-> "None", value |-> value]

IsOk(result) == result.err = "None"

\* standard_deck whose loops stop one card early
standard_deck_one_short ==
    [i \in 1..(Len(Suits) * Len(Ranks) - 1) |->
        Card(Suits[((i - 1) \div Len(Ranks)) + 1],
             Ranks[((i - 1) % Len(Ranks)) + 1])]

\* Deck::standard_deck: suits in the outer loop, ranks in the inner one
standard_deck ==
    [i \in 1..(Len(Suits) * Len(Ranks)) |->
        Card(Suits[((i - 1) \div Len(Ranks)) + 1],
             Ranks[((i - 1) % Len(Ranks)) + 1])]

\* Deck::shuffle drawing with replacement: the last position repeats the card
\* drawn first
shuffle_with_replacement(deck, order) ==
    [i \in 1..Len(deck) |-> deck[order[IF i = Len(deck) THEN 1 ELSE i]]]

\* Deck::shuffle: the random source is the permutation order (order[i] is
\* the position of the input deck that lands at position i)
shuffle(deck, order) == [i \in 1..Len(deck) |-> deck[order[i]]]

\* Deck::deal with pop_back for pop_front
Deck_deal_pop_back(deck) ==
    IF Len(deck) = 0
    THEN Err("EmptyDeck")
    ELSE Ok([deck |-> SubSeq(deck, 1, Len(deck) - 1), card |-> deck[Len(deck)]])

\* Deck::deal: the front card and the deck without it, or EmptyDeck
Deck_deal(deck) ==
    IF Len(deck) = 0
    THEN Err("EmptyDeck")
    ELSE Ok([deck |-> Tail(deck), card |-> Head(deck)])

----------------------------------------------------------------------------
(* hand.rs                                                                 *)

Hand_new == <<>>

\* Hand::add with push_front for push_back
Hand_add_push_front(hand, card) == <<card>> \o hand

Hand_add(hand, card) == Append(hand, card)

Hand_cards(hand) == hand

RECURSIVE SumValues(_)
SumValues(hand) ==
    IF hand = <<>> THEN 0
    ELSE to_value(Head(hand).rank) + SumValues(Tail(hand))

ace_count(hand) == Cardinality({ i \in DOMAIN hand : hand[i].rank = "Ace" })

\* the loop of Hand::score reducing one Ace at most
ScoreLoop_single_reduction(soft_value, n) ==
    IF n > 0 /\ soft_value > 21 THEN soft_value - 10 ELSE soft_value

\* the for loop of Hand::score: remaining iterations n, running soft_value
RECURSIVE ScoreLoop(_, _)
ScoreLoop(soft_value, n) ==
    IF n = 0 THEN soft_value
    ELSE IF soft_value > 21
         THEN IF soft_value - 10 <= 21
              THEN soft_value - 10
              ELSE ScoreLoop(soft_value - 10, n - 1)
         ELSE ScoreLoop(soft_value, n - 1)

\* a score that settles each Ace as it meets it, in hand order: 11 when that
\* keeps the running total at 21 or less, else 1
RECURSIVE RunningScore(_, _)
RunningScore(hand, total) ==
    IF hand = <<>> THEN total
    ELSE LET v == to_value(Head(hand).rank) IN
         RunningScore(Tail(hand),
                      IF Head(hand).rank = "Ace" /\ total + v > 21
                      THEN total + 1 ELSE total + v)

score_in_hand_order(hand) == RunningScore(hand, 0)

score(hand) == ScoreLoop(SumValues(hand), ace_count(hand))

\* DealerHand { hand }: the dealer's hand is the Hand it wraps
DealerHand_new == Hand_new

DealerHand_add(hand, card) == Hand_add(hand, card)

\* DealerHand::score leaving out the hole card
DealerHand_score_visible_cards(hand) ==
    IF hand = <<>> THEN score(hand) ELSE score(Tail(hand))

DealerHand_score(hand) == score(hand)

DealerHand_cards(hand) == Hand_cards(hand)

None == [none |-> TRUE]

\* hole_card reading the second card
hole_card_second(hand) == IF Len(hand) >= 2 THEN hand[2] ELSE None

hole_card(hand) == IF Len(hand) >= 1 THEN hand[1] ELSE None

\* upcard as the card added last
upcard_last_added(hand) == IF Len(hand) >= 2 THEN hand[Len(hand)] ELSE None

upcard(hand) == IF Len(hand) >= 2 THEN hand[2] ELSE None

----------------------------------------------------------------------------
(* game.rs: Context                                                        *)

BLACKJACK == 21

DealerStandsOn == 17

Context(deck, player_hand, dealer_hand) ==
    [deck |-> deck, player_hand |-> player_hand, dealer_hand |-> dealer_hand]

Context_new(deck) == Context(deck, Hand_new, DealerHand_new)

\* Context::new_hand whose deck has lost its top card
new_hand_without_top_card(order) ==
    Context_new(Tail(shuffle(standard_deck, order)))

\* Context::new_hand: a shuffled standard deck and two empty hands
new_hand(order) == Context_new(shuffle(standard_deck, order))

\* deal_initial_hands dealing the first two cards to the player and the next
\* two to the dealer
deal_initial_hands_not_alternating(ctx) ==
    IF Len(ctx.deck) < 4 THEN Err("EmptyDeck") ELSE
    Ok(Context(SubSeq(ctx.deck, 5, Len(ctx.deck)),
               <<ctx.deck[1], ctx.deck[2]>>,
               <<ctx.deck[3], ctx.deck[4]>>))

\* deal_initial_hands that deals the dealer the hole card only
deal_initial_hands_one_dealer_card(ctx) ==
    IF Len(ctx.deck) < 3 THEN Err("EmptyDeck") ELSE
    Ok(Context(SubSeq(ctx.deck, 4, Len(ctx.deck)),
               <<ctx.deck[1], ctx.deck[3]>>,
               <<ctx.deck[2]>>))

\* four Deck::deal calls chained with `?`, then the two hands are built from
\* empty ones: first and third card to the player, second and fourth to the
\* dealer
deal_initial_hands(ctx) ==
    LET d1 == Deck_deal(ctx.deck) IN
    IF ~IsOk(d1) THEN Err(d1.err) ELSE
    LET d2 == Deck_deal(d1.value.deck) IN
    IF ~IsOk(d2) THEN Err(d2.err) ELSE
    LET d3 == Deck_deal(d2.value.deck) IN
    IF ~IsOk(d3) THEN Err(d3.err) ELSE
    LET d4 == Deck_deal(d3.value.deck) IN
    IF ~IsOk(d4) THEN Err(d4.err) ELSE
    Ok(Context(d4.value.deck,
               Hand_add(Hand_add(Hand_new, d1.value.card), d3.value.card),
               DealerHand_add(DealerHand_add(DealerHand_new, d2.value.card),
                              d4.value.card)))

\* deal_player_card keeping the deck it drew from
deal_player_card_keeps_deck(ctx) ==
    IF Len(ctx.deck) = 0 THEN Err("EmptyDeck") ELSE
    Ok(Context(ctx.deck, Hand_add(ctx.player_hand, Head(ctx.deck)), ctx.dealer_hand))

\* deal_player_card that draws the card and keeps the hand it was given
deal_player_card_drops_card(ctx) ==
    IF Len(ctx.deck) = 0 THEN Err("EmptyDeck") ELSE
    Ok(Context(Tail(ctx.deck), ctx.player_hand, ctx.dealer_hand))

deal_player_card(ctx) ==
    LET d == Deck_deal(ctx.deck) IN
    IF ~IsOk(d) THEN Err(d.err) ELSE
    Ok(Context(d.value.deck,
               Hand_add(ctx.player_hand, d.value.card),
               ctx.dealer_hand))

player_score(ctx) == score(ctx.player_hand)

dealer_score(ctx) == DealerHand_score(ctx.dealer_hand)

\* play_dealer_hand drawing while the score is <= 17
RECURSIVE play_dealer_hand_hits_on_17(_)
play_dealer_hand_hits_on_17(ctx) ==
    IF dealer_score(ctx) <= DealerStandsOn
    THEN LET d == Deck_deal(ctx.deck) IN
         IF ~IsOk(d) THEN Err(d.err) ELSE
         play_dealer_hand_hits_on_17(Context(d.value.deck,
                                             ctx.player_hand,
                                             Hand_add(ctx.dealer_hand, d.value.card)))
    ELSE Ok(ctx)

\* play_dealer_hand that returns the hand played so far when the deck runs out
RECURSIVE play_dealer_hand_stops_on_empty(_)
play_dealer_hand_stops_on_empty(ctx) ==
    IF dealer_score(ctx) < DealerStandsOn /\ ctx.deck # <<>>
    THEN play_dealer_hand_stops_on_empty(
             Context(Tail(ctx.deck), ctx.player_hand,
                     Hand_add(ctx.dealer_hand, Head(ctx.deck))))
    ELSE Ok(ctx)

\* play_dealer_hand testing the score of the context it was called on
RECURSIVE DrawWhileBelow17(_, _)
DrawWhileBelow17(self, ctx) ==
    IF dealer_score(self) < DealerStandsOn
    THEN LET d == Deck_deal(ctx.deck) IN
         IF ~IsOk(d) THEN Err(d.err) ELSE
         DrawWhileBelow17(self, Context(d.value.deck, ctx.player_hand,
                                        Hand_add(ctx.dealer_hand, d.value.card)))
    ELSE Ok(ctx)

play_dealer_hand_stale_score(ctx) == DrawWhileBelow17(ctx, ctx)

\* the while loop of play_dealer_hand, one iteration per unfolding
RECURSIVE play_dealer_hand(_)
play_dealer_hand(ctx) ==
    IF dealer_score(ctx) < DealerStandsOn
    THEN LET d == Deck_deal(ctx.deck) IN
         IF ~IsOk(d) THEN Err(d.err) ELSE
         play_dealer_hand(Context(d.value.deck,
                                  ctx.player_hand,
                                  DealerHand_add(ctx.dealer_hand, d.value.card)))
    ELSE Ok(ctx)

player_blackjack(ctx) == player_score(ctx) = BLACKJACK

dealer_blackjack(ctx) == dealer_score(ctx) = BLACKJACK

\* double_blackjack with || for &&
double_blackjack_either(ctx) == player_blackjack(ctx) \/ dealer_blackjack(ctx)

double_blackjack(ctx) == player_blackjack(ctx) /\ dealer_blackjack(ctx)

\* player_busts one point late
player_busts_over_22(ctx) == player_score(ctx) > BLACKJACK + 1

player_busts(ctx) == player_score(ctx) > BLACKJACK

dealer_busts(ctx) == dealer_score(ctx) > BLACKJACK

\* player_wins without the dealer-bust alternative
player_wins_ignores_bust(ctx) == player_score(ctx) > dealer_score(ctx)

player_wins(ctx) == player_score(ctx) > dealer_score(ctx) \/ dealer_busts(ctx)

\* dealer_wins without the bust check
dealer_wins_ignores_bust(ctx) == dealer_score(ctx) > player_score(ctx)

dealer_wins(ctx) == dealer_score(ctx) > player_score(ctx) /\ ~dealer_busts(ctx)

draw(ctx) == player_score(ctx) = dealer_score(ctx)

----------------------------------------------------------------------------
(* game.rs: Action and GameState                                           *)

NewHand(player_hand, dealer_hand) ==
    [type |-> "NewHand", player_hand |-> player_hand, dealer_hand |-> dealer_hand]

NewPlayerCard(card) == [type |-> "NewPlayerCard", card |-> card]

NewDealerCards(cards) == [type |-> "NewDealerCards", cards |-> cards]

ShowDealerHoleCard(card) == [type |-> "ShowDealerHoleCard", card |-> card]

\* every resolving arm pushing Action::DealerWins
Resolution_always_dealer_wins(tag) == [type |-> "DealerWins"]

Resolution(tag) == [type |-> tag]

GameState(tag, ctx) == [tag |-> tag, ctx |-> ctx]

Terminal == {"DealerWins", "PlayerWins", "Draw"}

\* new_hand_action with the two hands exchanged
new_hand_action_swapped(ctx) == NewHand(ctx.dealer_hand, ctx.player_hand)

new_hand_action(ctx) == NewHand(ctx.player_hand, ctx.dealer_hand)

Transition(next_state, acts) == Ok([state |-> next_state, actions |-> acts])

\* skip(1) for skip(2)
Skip2_skips_one(cards) == SubSeq(cards, 2, Len(cards))

\* cards().skip(2)
Skip2(cards) == SubSeq(cards, 3, Len(cards))

----------------------------------------------------------------------------
(* game.rs: the transition functions                                       *)

\* the Ready arm of deal; the arms that resolve the round unwrap() the hole
\* card, which panics when it is absent
deal_ready(ctx) ==
    LET r == deal_initial_hands(ctx) IN
    IF ~IsOk(r) THEN Err(r.err) ELSE
    LET new_context == r.value
        resolved(tag) ==
            IF hole_card(new_context.dealer_hand) = None THEN Err("Panic") ELSE
            Transition(GameState(tag, new_context),
                       << Resolution(tag),
                          ShowDealerHoleCard(hole_card(new_context.dealer_hand)),
                          new_hand_action(new_context) >>)
    IN  IF double_blackjack(new_context) THEN resolved("Draw")
        ELSE IF dealer_blackjack(new_context) THEN resolved("DealerWins")
        ELSE IF player_blackjack(new_context) THEN resolved("PlayerWins")
        ELSE Transition(GameState("WaitingForPlayer", new_context),
                        << new_hand_action(new_context) >>)

\* deal whose catch-all arm deals instead of failing
deal_any_state(s, order) ==
    IF s.tag = "Ready" THEN deal_ready(s.ctx)
    ELSE IF s.tag \in Terminal THEN deal_ready(new_hand(order))
    ELSE deal_ready(s.ctx)

\* deal whose terminal arm deals from the carried context
deal_reuses_context(s, order) ==
    IF s.tag = "Ready" \/ s.tag \in Terminal THEN deal_ready(s.ctx)
    ELSE Err("InvalidState")

\* deal whose terminal arm returns the new Ready state instead of dealing it
deal_returns_new_round(s, order) ==
    IF s.tag = "Ready" THEN deal_ready(s.ctx)
    ELSE IF s.tag \in Terminal
         THEN Transition(GameState("Ready", new_hand(order)), <<>>)
    ELSE Err("InvalidState")

\* deal; order is what the random source gives the shuffle of the terminal arm
deal(s, order) ==
    IF s.tag = "Ready" THEN deal_ready(s.ctx)
    ELSE IF s.tag \in Terminal THEN deal_ready(new_hand(order))
    ELSE Err("InvalidState")

\* stand; the hole card is unwrapped before the outcome is classified
stand(s) ==
    IF s.tag # "WaitingForPlayer" THEN Err("InvalidState") ELSE
    LET r == play_dealer_hand(s.ctx) IN
    IF ~IsOk(r) THEN Err(r.err) ELSE
    IF hole_card(r.value.dealer_hand) = None THEN Err("Panic") ELSE
    LET new_context == r.value
        next_dealer_cards == Skip2(DealerHand_cards(new_context.dealer_hand))
        acts == IF Len(next_dealer_cards) > 0
                THEN << ShowDealerHoleCard(hole_card(new_context.dealer_hand)),
                        NewDealerCards(next_dealer_cards) >>
                ELSE << ShowDealerHoleCard(hole_card(new_context.dealer_hand)) >>
        resolved(tag) ==
            Transition(GameState(tag, new_context), <<Resolution(tag)>> \o acts)
    IN  IF dealer_wins(new_context) THEN resolved("DealerWins")
        ELSE IF player_wins(new_context) THEN resolved("PlayerWins")
        ELSE IF draw(new_context) THEN resolved("Draw")
        ELSE Transition(GameState("WaitingForPlayer", new_context), <<>>)

\* hit_blackjack that keeps the drawn card when stand fails
hit_blackjack_keeps_card(new_context, dealt_card) ==
    LET t == stand(GameState("WaitingForPlayer", new_context)) IN
    IF ~IsOk(t)
    THEN Transition(GameState("WaitingForPlayer", new_context),
                    <<NewPlayerCard(dealt_card)>>)
    ELSE Transition(t.value.state, <<NewPlayerCard(dealt_card)>> \o t.value.actions)

\* hit_blackjack with push_back for push_front
hit_blackjack_push_back(new_context, dealt_card) ==
    LET t == stand(GameState("WaitingForPlayer", new_context)) IN
    IF ~IsOk(t) THEN Err(t.err) ELSE
    Transition(t.value.state, t.value.actions \o <<NewPlayerCard(dealt_card)>>)

\* the arm of hit taken when the player reaches 21: stand on the updated
\* state, `?` on its result, then push_front of the player's card
hit_blackjack(new_context, dealt_card) ==
    LET t == stand(GameState("WaitingForPlayer", new_context)) IN
    IF ~IsOk(t) THEN Err(t.err) ELSE
    Transition(t.value.state, <<NewPlayerCard(dealt_card)>> \o t.value.actions)

\* hit_busts that lets the dealer play out the hand first
hit_busts_dealer_plays(new_context, dealt_card) ==
    LET r == play_dealer_hand(new_context) IN
    IF ~IsOk(r) THEN Err(r.err) ELSE
    Transition(GameState("DealerWins", r.value),
               << NewPlayerCard(dealt_card),
                  Resolution("DealerWins"),
                  ShowDealerHoleCard(hole_card(r.value.dealer_hand)) >>)

\* the arm of hit taken when the player busts; unwrap() of an absent hole
\* card panics
hit_busts(new_context, dealt_card) ==
    IF hole_card(new_context.dealer_hand) = None THEN Err("Panic") ELSE
    Transition(GameState("DealerWins", new_context),
               << NewPlayerCard(dealt_card),
                  Resolution("DealerWins"),
                  ShowDealerHoleCard(hole_card(new_context.dealer_hand)) >>)

\* hit without the arms that end the round
hit_never_resolves(s) ==
    IF s.tag # "WaitingForPlayer" THEN Err("InvalidState") ELSE
    LET r == deal_player_card(s.ctx) IN
    IF ~IsOk(r) THEN Err(r.err) ELSE
    Transition(GameState("WaitingForPlayer", r.value),
               << NewPlayerCard(r.value.player_hand[Len(r.value.player_hand)]) >>)

\* cards().last() of the new player hand is never absent: the hand has just
\* been added to
hit(s) ==
    IF s.tag # "WaitingForPlayer" THEN Err("InvalidState") ELSE
    LET r == deal_player_card(s.ctx) IN
    IF ~IsOk(r) THEN Err(r.err) ELSE
    LET new_context == r.value
        dealt_card == new_context.player_hand[Len(new_context.player_hand)]
    IN  IF player_blackjack(new_context) THEN hit_blackjack(new_context, dealt_card)
        ELSE IF player_busts(new_context) THEN hit_busts(new_context, dealt_card)
        ELSE Transition(GameState("WaitingForPlayer", new_context),
                        << NewPlayerCard(dealt_card) >>)

\* the hands whose score player_blackjack or dealer_blackjack reads while
\* deal runs: the guards of its match read both hands of the context that
\* deal_initial_hands returned
blackjack_evaluated_by_deal(s, order) ==
    IF s.tag \notin {"Ready"} \cup Terminal THEN {} ELSE
    LET r == deal_initial_hands(IF s.tag = "Ready" THEN s.ctx ELSE new_hand(order))
    IN  IF ~IsOk(r) THEN {}
        ELSE { r.value.player_hand, r.value.dealer_hand }

\* the same while hit runs: the first guard of its match reads the player's
\* hand of the context that deal_player_card returned; the stand it may
\* delegate to reads none
blackjack_evaluated_by_hit(s) ==
    IF s.tag # "WaitingForPlayer" THEN {} ELSE
    LET r == deal_player_card(s.ctx) IN
    IF ~IsOk(r) THEN {} ELSE { r.value.player_hand }

\* stand calls dealer_wins, player_wins and draw only
blackjack_evaluated_by_stand(s) == {}

----------------------------------------------------------------------------
(* The inputs: stacked decks of the tests and the orders of the shuffle    *)

\* cards(ranks) of the tests: every card a Heart
StackedRanks == {"Six", "Ten", "Ace"}

StackedCards == { Card("Heart", r) : r \in StackedRanks }

SeqsUpTo(S, n) == UNION { [1..k -> S] : k \in 0..n }

StackedDecks == SeqsUpTo(StackedCards, MaxDeck)

\* the cards the random source may bring to the front of a shuffled deck
FrontCards == { Card("Heart", "Ace"), Card("Diamond", "Ace"),
                Card("Heart", "Ten"), Card("Diamond", "Ten") }

PositionOf(deck, card) == CHOOSE i \in DOMAIN deck : deck[i] = card

Injective(f) == \A i, j \in DOMAIN f : i # j => f[i] # f[j]

\* a permutation of 1..n: the front cards in a chosen order, then the others
\* in their original order
OrderWithFront(front, n) ==
    front \o SelectSeq([i \in 1..n |-> i], LAMBDA i : i \notin Range(front))

FrontOrders ==
    LET n == Len(standard_deck)
        positions == { PositionOf(standard_deck, c) : c \in FrontCards }
    IN  { OrderWithFront(f, n) :
            f \in { g \in [1..Cardinality(positions) -> positions] : Injective(g) } }

\* the order that groups the ranks, the Aces first and then Two, Three, ...:
\* the longest hands a deck can give
LowCardsFirst ==
    [i \in 1..(Len(Suits) * Len(Ranks)) |->
        LET group == (i - 1) \div Len(Suits)
            suit  == (i - 1) % Len(Suits)
            rank  == IF group = 0 THEN Len(Ranks) ELSE group
        IN  suit * Len(Ranks) + rank]

\* the order that lets the player draw the most cards: the player is dealt
\* two Aces, the dealer two Kings, and the other Aces, the Twos and three
\* Threes follow
LongestHand ==
    LET front == << Card("Heart", "Ace"), Card("Heart", "King"),
                    Card("Diamond", "Ace"), Card("Diamond", "King"),
                    Card("Spade", "Ace"), Card("Club", "Ace"),
                    Card("Heart", "Two"), Card("Diamond", "Two"),
                    Card("Spade", "Two"), Card("Club", "Two"),
                    Card("Heart", "Three"), Card("Diamond", "Three"),
                    Card("Spade", "Three") >>
    IN  OrderWithFront([i \in 1..Len(front) |-> PositionOf(standard_deck, front[i])],
                       Len(standard_deck))

\* an order in which the dealer busts: the player is dealt two Tens, the
\* dealer two Sixes, and a King follows
DealerBustsOrder ==
    LET front == << Card("Heart", "Ten"), Card("Heart", "Six"),
                    Card("Diamond", "Ten"), Card("Diamond", "Six"),
                    Card("Heart", "King") >>
    IN  OrderWithFront([i \in 1..Len(front) |-> PositionOf(standard_deck, front[i])],
                       Len(standard_deck))

\* the orders the random source may give a shuffle of the standard deck
ShuffleOrders == FrontOrders \cup {LowCardsFirst, LongestHand, DealerBustsOrder}

----------------------------------------------------------------------------
(* The state machine: a caller holding one GameState                       *)

\* the caller keeps the state it holds when the call fails
Call(name, result) ==
    /\ op' = name
    /\ err' = result.err
    /\ IF IsOk(result)
       THEN /\ state' = result.value.state
            /\ actions' = result.value.actions
       ELSE /\ state' = state
            /\ actions' = <<>>
    /\ UNCHANGED <<held_hand, held_deck, returned, animations, tweens>>

\* the random source is consulted only where deal shuffles a new deck
OrdersDrawn(s) ==
    IF s.tag \in Terminal THEN ShuffleOrders
    ELSE { [i \in 1..Len(standard_deck) |-> i] }

Deal == \E order \in OrdersDrawn(state) : Call("deal", deal(state, order))

Hit == Call("hit", hit(state))

Stand == Call("stand", stand(state))

Next == Deal \/ Hit \/ Stand

\* no Hand or Deck is held apart from those of the GameState
NoValueHeld ==
    /\ held_hand = Hand_new
    /\ held_deck = <<>>
    /\ returned = None

\* no front end runs: no animation is queued and no tween is playing
NoFrontEnd ==
    /\ animations = <<>>
    /\ tweens = 0

\* GameState::new()
Init ==
    /\ \E order \in ShuffleOrders : state = GameState("Ready", new_hand(order))
    /\ op = "new"
    /\ err = "None"
    /\ actions = <<>>
    /\ NoValueHeld
    /\ NoFrontEnd

Spec == Init /\ [][Next]_vars

\* GameState::Ready(Context::new_with_cards(cards)) of the tests
InitStacked ==
    /\ \E cards \in StackedDecks : state = GameState("Ready", Context_new(cards))
    /\ op = "new"
    /\ err = "None"
    /\ actions = <<>>
    /\ NoValueHeld
    /\ NoFrontEnd

SpecStacked == InitStacked /\ [][Next]_vars

----------------------------------------------------------------------------
(* The tests of hand.rs: a Hand built card by card and scored              *)

HandRanks == {"Two", "Nine", "Ten", "Ace"}

HandCards == { Card("Heart", r) : r \in HandRanks }

\* no game is played: the GameState is Ready(Context::empty())
NoGame ==
    /\ state = GameState("Ready", Context_new(<<>>))
    /\ actions = <<>>

\* a method call that cannot fail: the value it returns is kept, the value
\* it was called on stays as it is
Returns(name, value) ==
    /\ op' = name
    /\ err' = "None"
    /\ returned' = value
    /\ UNCHANGED <<state, actions, held_hand, held_deck, animations, tweens>>

\* let hand = hand.add(card)
CallHand_add ==
    /\ Len(held_hand) < MaxHand
    /\ \E card \in HandCards : Returns("Hand::add", Hand_add(held_hand, card))

\* the test goes on with the hand that add returned
KeepHand ==
    /\ op = "Hand::add"
    /\ held_hand' = returned
    /\ op' = "let"
    /\ returned' = None
    /\ UNCHANGED <<state, err, actions, held_deck, animations, tweens>>

\* hand.score()
CallHand_score == Returns("Hand::score", score(held_hand))

NextHand == CallHand_add \/ KeepHand \/ CallHand_score

\* Hand::new()
InitHand ==
    /\ NoGame
    /\ op = "Hand::new"
    /\ err = "None"
    /\ held_hand = Hand_new
    /\ held_deck = <<>>
    /\ returned = None
    /\ NoFrontEnd

SpecHand == InitHand /\ [][NextHand]_vars

----------------------------------------------------------------------------
(* The tests of deck.rs: a Deck that is dealt from                         *)

\* Deck::standard_deck()
CallDeck_standard_deck == Returns("Deck::standard_deck", standard_deck)

\* deck.deal(): Ok((Deck, Card)) or Err(EmptyDeckError)
CallDeck_deal ==
    /\ op' = "Deck::deal"
    /\ returned' = Deck_deal(held_deck)
    /\ err' = returned'.err
    /\ UNCHANGED <<state, actions, held_hand, held_deck, animations, tweens>>

AllOrders(n) == { f \in [1..n -> 1..n] : Injective(f) }

\* the orders the random source may give a shuffle of deck: any order of a
\* short deck, the orders of ShuffleOrders for the standard deck
OrdersFor(deck) ==
    IF deck = standard_deck THEN ShuffleOrders ELSE AllOrders(Len(deck))

\* let shuffled_deck = deck.shuffle()
CallDeck_shuffle ==
    /\ op \in {"Deck::new_with_cards", "let"}
    /\ Len(held_deck) <= MaxShuffled \/ held_deck = standard_deck
    /\ \E order \in OrdersFor(held_deck) :
           Returns("Deck::shuffle", shuffle(held_deck, order))

\* the test goes on with the deck that standard_deck, shuffle or deal returned
KeepDeck ==
    /\ \/ op \in {"Deck::standard_deck", "Deck::shuffle"} /\ held_deck' = returned
       \/ op = "Deck::deal" /\ IsOk(returned) /\ held_deck' = returned.value.deck
    /\ op' = "let"
    /\ returned' = None
    /\ UNCHANGED <<state, err, actions, held_hand, animations, tweens>>

NextDeck == CallDeck_standard_deck \/ CallDeck_shuffle \/ CallDeck_deal \/ KeepDeck

\* Deck::new_with_cards(cards)
InitDeck ==
    /\ NoGame
    /\ op = "Deck::new_with_cards"
    /\ err = "None"
    /\ held_hand = Hand_new
    /\ \E cards \in StackedDecks : held_deck = cards
    /\ returned = None
    /\ NoFrontEnd

SpecDeck == InitDeck /\ [][NextDeck]_vars

----------------------------------------------------------------------------
(* The tests of hand.rs on a DealerHand: built card by card, then read     *)

\* let dealer_hand = dealer_hand.add(card)
CallDealerHand_add ==
    /\ Len(held_hand) < MaxHand
    /\ \E card \in HandCards :
           Returns("DealerHand::add", DealerHand_add(held_hand, card))

\* the test goes on with the dealer hand that add returned
KeepDealerHand ==
    /\ op = "DealerHand::add"
    /\ held_hand' = returned
    /\ op' = "let dealer_hand"
    /\ returned' = None
    /\ UNCHANGED <<state, err, actions, held_deck, animations, tweens>>

CallDealerHand_score == Returns("DealerHand::score", DealerHand_score(held_hand))

CallDealerHand_hole_card == Returns("DealerHand::hole_card", hole_card(held_hand))

CallDealerHand_upcard == Returns("DealerHand::upcard", upcard(held_hand))

CallDealerHand_cards == Returns("DealerHand::cards", DealerHand_cards(held_hand))

NextDealerHand ==
    \/ CallDealerHand_add
    \/ KeepDealerHand
    \/ CallDealerHand_score
    \/ CallDealerHand_hole_card
    \/ CallDealerHand_upcard
    \/ CallDealerHand_cards

\* DealerHand::new()
InitDealerHand ==
    /\ NoGame
    /\ op = "DealerHand::new"
    /\ err = "None"
    /\ held_hand = DealerHand_new
    /\ held_deck = <<>>
    /\ returned = None
    /\ NoFrontEnd

SpecDealerHand == InitDealerHand /\ [][NextDealerHand]_vars

----------------------------------------------------------------------------
(* Hands wherever they are built: in a game, or card by card in the tests  *)
(* of hand.rs.  The function called last tells what the caller holds.      *)

HoldsGame == op \in {"new", "deal", "hit", "stand"}

HoldsHand == op \in {"Hand::new", "Hand::add", "Hand::score", "let"}

HoldsDealerHand ==
    op \in {"DealerHand::new", "DealerHand::add", "DealerHand::score",
            "DealerHand::hole_card", "DealerHand::upcard", "DealerHand::cards",
            "let dealer_hand"}

InitAppend == Init \/ InitHand \/ InitDealerHand

NextAppend ==
    \/ HoldsGame /\ Next
    \/ HoldsHand /\ NextHand
    \/ HoldsDealerHand /\ NextDealerHand

SpecAppend == InitAppend /\ [][NextAppend]_vars

----------------------------------------------------------------------------
(* The predicates of a Context called on contexts of any two hands: the    *)
(* hands are pub fields, which the holder of a Context can set             *)

ContextRanks == {"Two", "Ten", "Ace"}

ContextHands == SeqsUpTo({ Card("Heart", r) : r \in ContextRanks }, MaxContextHand)

CallContext_player_wins == Returns("Context::player_wins", player_wins(state.ctx))

CallContext_dealer_wins == Returns("Context::dealer_wins", dealer_wins(state.ctx))

NextContext == CallContext_player_wins \/ CallContext_dealer_wins

InitContext ==
    /\ \E player_hand \in ContextHands, dealer_hand \in ContextHands :
           state = GameState("WaitingForPlayer",
                             Context(<<>>, player_hand, dealer_hand))
    /\ op = "Context"
    /\ err = "None"
    /\ actions = <<>>
    /\ NoValueHeld
    /\ NoFrontEnd

SpecContext == InitContext /\ [][NextContext]_vars

----------------------------------------------------------------------------
(* play_dealer_hand iteration by iteration: state holds new_context, the   *)
(* clone the loop works on, from the call to the return                    *)

PlayRanks == {"Five", "Six", "Ten", "Ace"}

PlayDecks == SeqsUpTo({ Card("Heart", r) : r \in PlayRanks }, MaxDeck)

\* the loop has not returned
Playing == op = "play_dealer_hand"

\* the guard holds and deal()? fails on an empty deck, but the loop goes on
\* to test the guard again
LoopFails_retries ==
    /\ Playing
    /\ dealer_score(state.ctx) < DealerStandsOn
    /\ ~IsOk(Deck_deal(state.ctx.deck))
    /\ UNCHANGED vars

\* the guard holds and deal()? returns the error of an empty deck
LoopFails ==
    /\ Playing
    /\ dealer_score(state.ctx) < DealerStandsOn
    /\ ~IsOk(Deck_deal(state.ctx.deck))
    /\ op' = "return"
    /\ err' = Deck_deal(state.ctx.deck).err
    /\ UNCHANGED <<state, actions, held_hand, held_deck, returned, animations, tweens>>

\* the guard holds and the body runs: the card dealt goes to the dealer
LoopDraws ==
    /\ Playing
    /\ dealer_score(state.ctx) < DealerStandsOn
    /\ IsOk(Deck_deal(state.ctx.deck))
    /\ LET d == Deck_deal(state.ctx.deck).value IN
       state' = GameState(state.tag,
                          Context(d.deck, state.ctx.player_hand,
                                  DealerHand_add(state.ctx.dealer_hand, d.card)))
    /\ UNCHANGED <<op, err, actions, held_hand, held_deck, returned, animations, tweens>>

\* the guard fails: Ok(new_context)
LoopExits ==
    /\ Playing
    /\ ~(dealer_score(state.ctx) < DealerStandsOn)
    /\ op' = "return"
    /\ err' = "None"
    /\ UNCHANGED <<state, actions, held_hand, held_deck, returned, animations, tweens>>

NextPlay == LoopDraws \/ LoopFails \/ LoopExits

\* stand calls play_dealer_hand on the context of a WaitingForPlayer state
\* that deal returned
InitPlay ==
    /\ \E cards \in PlayDecks :
           LET t == deal(GameState("Ready", Context_new(cards)), <<>>)
           IN  /\ IsOk(t)
               /\ t.value.state.tag = "WaitingForPlayer"
               /\ state = t.value.state
    /\ op = "play_dealer_hand"
    /\ err = "None"
    /\ actions = <<>>
    /\ NoValueHeld
    /\ NoFrontEnd

\* a loop that can take its next iteration takes it
SpecPlay == InitPlay /\ [][NextPlay]_vars /\ WF_vars(NextPlay)

----------------------------------------------------------------------------
(* godot-blackjack: the Blackjack node.  The nodes the handlers look up    *)
(* (./PlayerHand, ./DealerHand, ./Result, the buttons) are in the scene.   *)
(* A handler that panics leaves the fields as they were at the panic.      *)

rank_as_texture_abbreviation(rank) ==
    CASE rank = "Ace"   -> "A"
      [] rank = "Jack"  -> "J"
      [] rank = "Queen" -> "Q"
      [] rank = "King"  -> "K"
      [] OTHER          -> ToString(to_value(rank))

texture_path_from_card(card) ==
    "res://images/playingCards.card" \o card.suit \o "s"
        \o rank_as_texture_abbreviation(card.rank) \o ".atlastex"

CardAnimationProperties(destination_node, texture_name) ==
    [destination_node |-> destination_node, texture_name |-> texture_name]

get_animations_for_player_cards(player_cards) ==
    [i \in 1..Len(player_cards) |->
        CardAnimationProperties("./PlayerHand", texture_path_from_card(player_cards[i]))]

get_animations_for_dealer_cards(dealer_cards) ==
    [i \in 1..Len(dealer_cards) |->
        CardAnimationProperties("./DealerHand", texture_path_from_card(dealer_cards[i]))]

\* the card back for the hole card, then the upcard; unwrap() of an absent
\* upcard panics
get_animations_for_initial_dealer_hand(dealer_hand) ==
    IF upcard(dealer_hand) = None THEN Err("Panic") ELSE
    Ok(<< CardAnimationProperties("./DealerHand",
              "res://images/playingCardBacks.cardBack_blue1.atlastex"),
          CardAnimationProperties("./DealerHand",
              texture_path_from_card(upcard(dealer_hand))) >>)

\* the comparison of sort_actions finds b out of place after a
SortedBefore(a, b) == ~(a.type = "NewDealerCards" /\ b.type = "NewPlayerCard")

\* sort_by with a comparison that orders only NewPlayerCard before
\* NewDealerCards: the list comes back in an order in which no two
\* neighbours are out of place, and which of these orders is the algorithm's
sort_actions(acts) ==
    { sorted \in { [i \in 1..Len(acts) |-> acts[p[i]]] : p \in AllOrders(Len(acts)) } :
        \A i \in 1..(Len(sorted) - 1) : SortedBefore(sorted[i], sorted[i + 1]) }

\* _process has run since the last handler, so the buttons are set for the
\* state the node holds
ButtonsSet == op = "_process"

\* the handler panicked: the fields it had not yet assigned keep their values
Panics(unassigned) ==
    /\ err' = "Panic"
    /\ UNCHANGED unassigned

\* the cards _on_new_game_pressed animates for the state deal returned
new_cards(s) ==
    IF s.tag = "WaitingForPlayer"
    THEN LET initial == get_animations_for_initial_dealer_hand(s.ctx.dealer_hand) IN
         IF ~IsOk(initial) THEN initial ELSE
         Ok(get_animations_for_player_cards(Hand_cards(s.ctx.player_hand))
                \o initial.value)
    ELSE IF s.tag \in Terminal
    THEN Ok(get_animations_for_player_cards(Hand_cards(s.ctx.player_hand))
                \o get_animations_for_dealer_cards(DealerHand_cards(s.ctx.dealer_hand)))
    ELSE Ok(<<>>)

\* clear_all_children frees the sprites and the tweens of both hands
OnNewGamePressed ==
    /\ ButtonsSet
    /\ state.tag # "WaitingForPlayer"
    /\ op' = "_on_new_game_pressed"
    /\ \E order \in OrdersDrawn(state) :
           LET t == deal(state, order) IN
           IF ~IsOk(t)
           THEN tweens' = 0 /\ Panics(<<state, actions, animations>>)
           ELSE /\ state' = t.value.state
                /\ actions' = t.value.actions
                /\ LET cards == new_cards(t.value.state) IN
                   IF ~IsOk(cards)
                   THEN tweens' = 0 /\ Panics(<<animations>>)
                   ELSE /\ err' = "None"
                        /\ IF Len(cards.value) > 0
                           THEN /\ animations' = Tail(cards.value)
                                /\ tweens' = 1
                           ELSE /\ animations' = animations
                                /\ tweens' = 0
    /\ UNCHANGED <<held_hand, held_deck, returned>>

\* the match of _on_stand_pressed on the state stand returned
stand_animations(s) ==
    IF s.tag \in Terminal
    THEN IF hole_card(s.ctx.dealer_hand) = None THEN Err("Panic")
         ELSE Ok(get_animations_for_dealer_cards(Skip2(DealerHand_cards(s.ctx.dealer_hand))))
    ELSE Err("FindNodeFailed")

\* cards.remove(0) panics on an empty vector, expect on an Err
OnStandPressed ==
    /\ ButtonsSet
    /\ state.tag = "WaitingForPlayer"
    /\ op' = "_on_stand_pressed"
    /\ LET t == stand(state) IN
       IF ~IsOk(t)
       THEN Panics(<<state, actions, animations, tweens>>)
       ELSE /\ state' = t.value.state
            /\ actions' = t.value.actions
            /\ LET cards == stand_animations(t.value.state) IN
               IF ~IsOk(cards) \/ Len(cards.value) = 0
               THEN Panics(<<animations, tweens>>)
               ELSE /\ err' = "None"
                    /\ animations' = Tail(cards.value)
                    /\ tweens' = tweens + 1
    /\ UNCHANGED <<held_hand, held_deck, returned>>

\* the match of _on_hit_pressed on the state hit returned
hit_animation(s) ==
    IF s.tag = "Ready" THEN Err("FindNodeFailed")
    ELSE IF s.tag \in Terminal /\ hole_card(s.ctx.dealer_hand) = None THEN Err("Panic")
    ELSE IF Len(Hand_cards(s.ctx.player_hand)) = 0 THEN Err("Panic")
    ELSE LET cards == Hand_cards(s.ctx.player_hand) IN
         Ok(get_animations_for_player_cards(<<cards[Len(cards)]>>)[1])

OnHitPressed ==
    /\ ButtonsSet
    /\ state.tag = "WaitingForPlayer"
    /\ op' = "_on_hit_pressed"
    /\ LET t == hit(state) IN
       IF ~IsOk(t)
       THEN Panics(<<state, actions, animations, tweens>>)
       ELSE /\ state' = t.value.state
            /\ actions' = t.value.actions
            /\ IF ~IsOk(hit_animation(t.value.state))
               THEN Panics(<<animations, tweens>>)
               ELSE /\ err' = "None"
                    /\ tweens' = tweens + 1
                    /\ UNCHANGED animations
    /\ UNCHANGED <<held_hand, held_deck, returned>>

\* every frame: sort_actions, then Hit and Stand are enabled in
\* WaitingForPlayer and NewGame in every other state
Process ==
    /\ op' = "_process"
    /\ err' = "None"
    /\ actions' \in sort_actions(actions)
    /\ UNCHANGED <<state, animations, tweens, held_hand, held_deck, returned>>

\* tween_all_completed of a tween play_animation started
CardDealt ==
    /\ tweens > 0
    /\ op' = "card_dealt"
    /\ err' = "None"
    /\ IF Len(animations) > 0
       THEN /\ animations' = Tail(animations)
            /\ tweens' = tweens
       ELSE /\ animations' = animations
            /\ tweens' = tweens - 1
    /\ UNCHANGED <<state, actions, held_hand, held_deck, returned>>

NextGodot ==
    \/ OnNewGamePressed
    \/ OnStandPressed
    \/ OnHitPressed
    \/ Process
    \/ CardDealt

\* Blackjack::new
InitGodot ==
    /\ \E order \in ShuffleOrders : state = GameState("Ready", new_hand(order))
    /\ op = "new"
    /\ err = "None"
    /\ actions = <<>>
    /\ NoValueHeld
    /\ NoFrontEnd

SpecGodot == InitGodot /\ [][NextGodot]_vars

----------------------------------------------------------------------------
(* Properties.  A step of the machine is one call: the unprimed state is   *)
(* the GameState the call was given, op' names the function called, and    *)
(* err', state' and actions' are what it returned.                         *)

Waiting == state.tag = "WaitingForPlayer"

Succeeded == err = "None"

\* a is a reordering of the 52 different cards of the standard deck
IsFullDeck(a) ==
    /\ Len(a) = Len(standard_deck)
    /\ Range(a) = Range(standard_deck)

\* the player hand and the dealer hand the first four cards of a deck make
DealtPlayer(deck) == <<deck[1], deck[3]>>

DealtDealer(deck) == <<deck[2], deck[4]>>

\* C1: deal from Ready with at least four cards succeeds and classifies the
\* dealt hands in priority order: both score 21 -> Draw; else dealer 21 ->
\* DealerWins; else player 21 -> PlayerWins; else WaitingForPlayer.
C1_DealClassifiesInPriorityOrder ==
    [][ (op' = "deal" /\ state.tag = "Ready" /\ Len(state.ctx.deck) >= 4) =>
          LET p == score(DealtPlayer(state.ctx.deck))
              d == score(DealtDealer(state.ctx.deck))
          IN  /\ err' = "None"
              /\ state'.tag = IF p = 21 /\ d = 21 THEN "Draw"
                              ELSE IF d = 21 THEN "DealerWins"
                              ELSE IF p = 21 THEN "PlayerWins"
                              ELSE "WaitingForPlayer" ]_vars

\* a deal from a stacked deck ended in Draw with both hands at 21
C1_Witness ==
    /\ op = "deal" /\ Succeeded /\ state.tag = "Draw"
    /\ Len(state.ctx.deck) <= MaxDeck
    /\ player_score(state.ctx) = 21 /\ dealer_score(state.ctx) = 21

\* C2: a successful deal from Ready returns exactly [resolution,
\* ShowDealerHoleCard(hole card), NewHand(player hand, dealer hand)] when it
\* resolves at once (the resolution tag being the returned state's variant)
\* and exactly [NewHand(player hand, dealer hand)] when it returns
\* WaitingForPlayer, the NewHand payload being the returned context's hands.
C2_DealActions ==
    [][ (op' = "deal" /\ state.tag = "Ready" /\ err' = "None") =>
          LET c == state'.ctx
              shown == [type |-> "NewHand", player_hand |-> c.player_hand,
                        dealer_hand |-> c.dealer_hand]
          IN  IF state'.tag \in {"DealerWins", "PlayerWins", "Draw"}
              THEN actions' = << [type |-> state'.tag],
                                 [type |-> "ShowDealerHoleCard",
                                  card |-> c.dealer_hand[1]],
                                 shown >>
              ELSE /\ state'.tag = "WaitingForPlayer"
                   /\ actions' = << shown >> ]_vars

\* a deal resolved at once with three actions, the hands being different
C2_Witness ==
    /\ op = "deal" /\ Succeeded /\ state.tag = "DealerWins"
    /\ Len(actions) = 3
    /\ state.ctx.player_hand # state.ctx.dealer_hand

\* C3: deal_initial_hands on a deck [c1, c2, c3, c4, rest...] gives player
\* hand [c1, c3], dealer hand [c2, c4] (c2 the hole card, c4 the upcard) and
\* deck rest, in its original order.
C3_DealInitialHandsAlternates ==
    [][ (op' = "deal" /\ state.tag = "Ready" /\ Len(state.ctx.deck) >= 4) =>
          LET cards == state.ctx.deck
          IN  /\ state'.ctx.player_hand = <<cards[1], cards[3]>>
              /\ state'.ctx.dealer_hand = <<cards[2], cards[4]>>
              /\ hole_card(state'.ctx.dealer_hand) = cards[2]
              /\ upcard(state'.ctx.dealer_hand) = cards[4]
              /\ state'.ctx.deck = SubSeq(cards, 5, Len(cards)) ]_vars

\* a deal in which neighbouring cards of the deck differed and that left
\* cards in the deck
C3_Witness ==
    /\ op = "deal" /\ Succeeded
    /\ Len(state.ctx.player_hand) = 2 /\ Len(state.ctx.dealer_hand) = 2
    /\ state.ctx.player_hand[1] # state.ctx.player_hand[2]
    /\ state.ctx.player_hand[2] # state.ctx.dealer_hand[1]
    /\ state.ctx.dealer_hand[1] # state.ctx.dealer_hand[2]
    /\ Len(state.ctx.deck) \in 1..(MaxDeck - 4)

\* C4: deal on WaitingForPlayer, and hit and stand on Ready, DealerWins,
\* PlayerWins or Draw, fail with InvalidState whatever the context, also
\* when its deck is empty.
C4_TransitionLegality ==
    [][ /\ (op' = "deal" /\ state.tag = "WaitingForPlayer") =>
              (err' = "InvalidState" /\ actions' = <<>>)
        /\ (op' \in {"hit", "stand"} /\ state.tag # "WaitingForPlayer") =>
              (err' = "InvalidState" /\ actions' = <<>>) ]_vars

\* hit or stand was refused on a terminal state whose deck is empty
C4_Witness ==
    /\ op \in {"hit", "stand"} /\ err = "InvalidState"
    /\ state.tag \in Terminal
    /\ state.ctx.deck = <<>>

\* C5: deal on a terminal state never fails and returns what deal returns on
\* Ready(c) for c a context with empty hands and an ordering of the full 52
\* card deck: the returned context holds 2 player cards, 2 dealer cards and
\* 48 deck cards, whatever the carried context held.
C5_DealOnTerminalStartsNewRound ==
    [][ (op' = "deal" /\ state.tag \in Terminal) =>
          /\ err' = "None"
          /\ Len(state'.ctx.player_hand) = 2
          /\ Len(state'.ctx.dealer_hand) = 2
          /\ Len(state'.ctx.deck) = 48
          /\ LET c == state'.ctx
                 full == << c.player_hand[1], c.dealer_hand[1],
                            c.player_hand[2], c.dealer_hand[2] >> \o c.deck
             IN  /\ IsFullDeck(full)
                 /\ deal_ready([deck |-> full, player_hand |-> <<>>,
                                dealer_hand |-> <<>>])
                      = Ok([state |-> state', actions |-> actions']) ]_vars

\* a new round was dealt from the full deck
C5_Witness ==
    /\ op = "deal" /\ Succeeded
    /\ Len(state.ctx.deck) = 48
    /\ state.tag = "WaitingForPlayer"

\* the card a hit draws and the player hand it makes
DrawnCard == Head(state.ctx.deck)

HandAfterHit == Append(state.ctx.player_hand, DrawnCard)

HitDraws == op' = "hit" /\ state.tag = "WaitingForPlayer" /\ state.ctx.deck # <<>>

\* C6: hit on WaitingForPlayer with a non-empty deck, the new player score
\* being below 21, returns WaitingForPlayer with the player hand extended by
\* the former front card of the deck, the deck shortened by that card, the
\* dealer hand unchanged, and the actions exactly [NewPlayerCard(that card)].
C6_HitBelow21 ==
    [][ (HitDraws /\ score(HandAfterHit) < 21) =>
          /\ err' = "None"
          /\ state'.tag = "WaitingForPlayer"
          /\ state'.ctx.player_hand = HandAfterHit
          /\ state'.ctx.deck = Tail(state.ctx.deck)
          /\ state'.ctx.dealer_hand = state.ctx.dealer_hand
          /\ actions' = << [type |-> "NewPlayerCard", card |-> DrawnCard] >> ]_vars

\* a hit left the player waiting with three cards and cards still in the deck
C6_Witness ==
    /\ op = "hit" /\ Succeeded /\ Waiting
    /\ Len(state.ctx.player_hand) = 3
    /\ player_score(state.ctx) < 21
    /\ state.ctx.deck # <<>>

\* C7: hit on WaitingForPlayer, the drawn card taking the player above 21,
\* returns DealerWins with the actions exactly [NewPlayerCard(drawn card),
\* DealerWins, ShowDealerHoleCard(hole card)]; the dealer draws nothing: the
\* dealer hand is unchanged and the deck lost only the player's card.
C7_HitBusts ==
    [][ (HitDraws /\ score(HandAfterHit) > 21) =>
          /\ err' = "None"
          /\ state'.tag = "DealerWins"
          /\ actions' = << [type |-> "NewPlayerCard", card |-> DrawnCard],
                           [type |-> "DealerWins"],
                           [type |-> "ShowDealerHoleCard",
                            card |-> state.ctx.dealer_hand[1]] >>
          /\ state'.ctx.player_hand = HandAfterHit
          /\ state'.ctx.dealer_hand = state.ctx.dealer_hand
          /\ state'.ctx.deck = Tail(state.ctx.deck) ]_vars

\* the player bust on a hit while the dealer, below 17, had cards to draw
C7_Witness ==
    /\ op = "hit" /\ Succeeded /\ state.tag = "DealerWins"
    /\ player_score(state.ctx) > 21
    /\ dealer_score(state.ctx) < 17
    /\ state.ctx.deck # <<>>

\* C8: hit on WaitingForPlayer(ctx), the drawn card bringing the player to
\* exactly 21, returns what stand returns on WaitingForPlayer(ctx with the
\* card added to the player hand): the same state, and the actions
\* NewPlayerCard(drawn card) followed by those of that stand call (and the
\* error of that stand call when it fails).
C8_HitTo21DelegatesToStand ==
    [][ (HitDraws /\ score(HandAfterHit) = 21) =>
          LET t == stand([tag |-> "WaitingForPlayer",
                          ctx |-> [deck |-> Tail(state.ctx.deck),
                                   player_hand |-> HandAfterHit,
                                   dealer_hand |-> state.ctx.dealer_hand]])
          IN  IF t.err = "None"
              THEN /\ err' = "None"
                   /\ state' = t.value.state
                   /\ actions' = << [type |-> "NewPlayerCard", card |-> DrawnCard] >>
                                   \o t.value.actions
              ELSE /\ err' = t.err
                   /\ actions' = <<>> ]_vars

\* a hit brought the player to 21 and the dealer then drew a card
C8_Witness ==
    /\ op = "hit" /\ Succeeded /\ state.tag \in Terminal
    /\ player_score(state.ctx) = 21
    /\ Len(state.ctx.player_hand) = 3
    /\ Len(state.ctx.dealer_hand) > 2
    /\ Len(actions) = 4

IsPrefix(a, b) == Len(a) <= Len(b) /\ SubSeq(b, 1, Len(a)) = a

\* a step in which the dealer's hand was played out: a successful stand, or a
\* successful hit that reached 21 and delegated to stand
DealerPlayed ==
    /\ state.tag = "WaitingForPlayer"
    /\ err' = "None"
    /\ \/ op' = "stand"
       \/ op' = "hit" /\ state.ctx.deck # <<>> /\ score(HandAfterHit) = 21

\* C9: after every successful stand the dealer's score is at least 17; every
\* prefix of the final dealer hand that is shorter than it and at least as
\* long as the starting hand scores below 17 (a card was drawn only below
\* 17); and when the dealer already has 17 or more, soft 17 included, no card
\* is drawn and the deck is unchanged.
C9_DealerStandsOn17 ==
    [][ DealerPlayed =>
          LET before == state.ctx.dealer_hand
              after  == state'.ctx.dealer_hand
              deck   == IF op' = "hit" THEN Tail(state.ctx.deck) ELSE state.ctx.deck
          IN  /\ score(after) >= 17
              /\ IsPrefix(before, after)
              /\ \A k \in Len(before)..(Len(after) - 1) :
                    score(SubSeq(after, 1, k)) < 17
              /\ after \o state'.ctx.deck = before \o deck
              /\ score(before) >= 17 =>
                    (after = before /\ state'.ctx.deck = deck) ]_vars

\* a stand in which the dealer drew two cards and stopped with cards left
C9_Witness ==
    /\ op = "stand" /\ Succeeded
    /\ Len(state.ctx.dealer_hand) = 4
    /\ state.ctx.deck # <<>>

\* C10: stand classifies the context the dealer's play-out gives in priority
\* order: dealer score above the player's and dealer not bust -> DealerWins;
\* else player score above the dealer's, or dealer bust -> PlayerWins; else
\* equal scores -> Draw.
C10_StandClassifiesInPriorityOrder ==
    [][ DealerPlayed =>
          LET p == score(state'.ctx.player_hand)
              d == score(state'.ctx.dealer_hand)
          IN  state'.tag = IF d > p /\ ~(d > 21) THEN "DealerWins"
                           ELSE IF p > d \/ d > 21 THEN "PlayerWins"
                           ELSE IF p = d THEN "Draw"
                           ELSE "WaitingForPlayer" ]_vars

\* a stand ended in PlayerWins with the dealer bust above the player's score
C10_Witness ==
    /\ op = "stand" /\ Succeeded /\ state.tag = "PlayerWins"
    /\ dealer_score(state.ctx) > 21
    /\ dealer_score(state.ctx) > player_score(state.ctx)

\* C11: whenever a successful stand leaves the dealer above 21 the result is
\* PlayerWins with a PlayerWins action, never DealerWins, although the
\* dealer's score is the higher number.
C11_DealerBustIsPlayerWins ==
    [][ (DealerPlayed /\ score(state'.ctx.dealer_hand) > 21) =>
          /\ state'.tag = "PlayerWins"
          /\ [type |-> "PlayerWins"] \in Range(actions')
          /\ [type |-> "DealerWins"] \notin Range(actions') ]_vars

\* the dealer drew into a bust that outnumbers the player's score
C11_Witness ==
    /\ op = "stand" /\ Succeeded
    /\ Len(state.ctx.dealer_hand) >= 3
    /\ score(state.ctx.dealer_hand) > 21
    /\ score(state.ctx.dealer_hand) > score(state.ctx.player_hand)
    /\ actions[1] = [type |-> "PlayerWins"]

\* C12: a successful stand always returns DealerWins, PlayerWins or Draw; the
\* fallback that stays in WaitingForPlayer with no actions is never taken.
C12_StandAlwaysResolves ==
    [][ (op' = "stand" /\ err' = "None") =>
          /\ state'.tag \in {"DealerWins", "PlayerWins", "Draw"}
          /\ actions' # <<>> ]_vars

\* a stand resolved by the last arm before the fallback
C12_Witness ==
    /\ op = "stand" /\ Succeeded /\ state.tag = "Draw"
    /\ Len(state.ctx.dealer_hand) >= 3

\* C13: the actions of a successful stand are [resolution,
\* ShowDealerHoleCard(hole card), NewDealerCards(extra)], NewDealerCards being
\* there exactly when the dealer drew in this stand, with the dealer's cards
\* beyond the first two in the order drawn; otherwise the first two only.
C13_StandActions ==
    [][ (op' = "stand" /\ err' = "None") =>
          LET before == state.ctx.dealer_hand
              after  == state'.ctx.dealer_hand
              drawn  == SubSeq(state.ctx.deck, 1, Len(after) - Len(before))
              first2 == << [type |-> state'.tag],
                           [type |-> "ShowDealerHoleCard", card |-> after[1]] >>
          IN  IF Len(after) > Len(before)
              THEN /\ actions' = Append(first2, [type |-> "NewDealerCards",
                                                   cards |-> SubSeq(after, 3, Len(after))])
                   /\ actions'[3].cards = drawn
              ELSE actions' = first2 ]_vars

\* a stand in which the dealer drew two cards, reported in one action
C13_Witness ==
    /\ op = "stand" /\ Succeeded
    /\ Len(actions) = 3
    /\ actions[3].type = "NewDealerCards"
    /\ Len(actions[3].cards) = 2
    /\ actions[3].cards[1] # actions[3].cards[2]

\* the dealer stays below 17 however many cards of the deck it draws
DealerExhausts(ctx) ==
    \A k \in 0..Len(ctx.deck) :
        score(ctx.dealer_hand \o SubSeq(ctx.deck, 1, k)) < 17

\* C15: deck exhaustion is a returned EmptyDeck error, never a partial
\* result: deal from Ready with fewer than 4 cards, hit on WaitingForPlayer
\* with an empty deck, and stand whose dealer is still below 17 when the deck
\* runs out all fail with EmptyDeck, returning no state and no actions.
C15_ExhaustionIsEmptyDeck ==
    [][ ( \/ op' = "deal" /\ state.tag = "Ready" /\ Len(state.ctx.deck) < 4
          \/ op' = "hit" /\ state.tag = "WaitingForPlayer" /\ state.ctx.deck = <<>>
          \/ op' = "stand" /\ state.tag = "WaitingForPlayer" /\ DealerExhausts(state.ctx) )
        => (err' = "EmptyDeck" /\ actions' = <<>> /\ state' = state) ]_vars

\* a stand failed after the dealer had drawn the cards that were left
C15_Witness ==
    /\ op = "stand" /\ err = "EmptyDeck" /\ Waiting
    /\ state.ctx.deck # <<>>
    /\ actions = <<>>

AllCards(ctx) == ctx.deck \o ctx.player_hand \o ctx.dealer_hand

\* C14: in every state reachable from GameState::new() by deal, hit and
\* stand, the deck, the player hand and the dealer hand together hold exactly
\* the 52 standard cards, each once.
C14_DeckConservation == IsFullDeck(AllCards(state.ctx))

\* a round in which the player hit and the dealer drew
C14_Witness ==
    /\ op = "stand" /\ Succeeded
    /\ Len(state.ctx.player_hand) >= 3
    /\ Len(state.ctx.dealer_hand) >= 3
    /\ Len(AllCards(state.ctx)) = 52

\* C16: a round that starts from an ordering of the full 52-card deck never
\* runs out of cards: no deal, hit or stand returns EmptyDeck.
C16_FullDeckNeverRunsOut == err # "EmptyDeck"

\* the longest round of the low-cards-first deck: the player took seven
\* cards and the dealer then played out its hand
C16_Witness ==
    /\ op = "stand" /\ Succeeded /\ state.tag \in Terminal
    /\ Len(state.ctx.player_hand) >= 9
    /\ Len(state.ctx.dealer_hand) >= 3

----------------------------------------------------------------------------
(* Properties of Hand and Deck                                             *)

\* H: the sum of the card values, every Ace counted as 11
HardTotal(h) ==
    LET S[i \in 0..Len(h)] == IF i = 0 THEN 0 ELSE S[i - 1] + to_value(h[i].rank)
    IN  S[Len(h)]

Aces(h) == Cardinality({ i \in 1..Len(h) : h[i].rank = "Ace" })

\* the standard blackjack total: H when H <= 21, else H - 10*k for the
\* smallest k in 1..a with H - 10*k <= 21, k = a when there is none
StandardTotal(h) ==
    LET H  == HardTotal(h)
        a  == Aces(h)
        Ks == { k \in 1..a : H - 10 * k <= 21 }
        k  == IF Ks # {} THEN CHOOSE m \in Ks : \A n \in Ks : m <= n ELSE a
    IN  IF H <= 21 THEN H ELSE H - 10 * k

HeartsOf(ranks) == [i \in 1..Len(ranks) |-> [suit |-> "Heart", rank |-> ranks[i]]]

\* C17: Hand::score is the standard blackjack total of every hand; in
\* particular score([]) = 0, score([Ace, Ten]) = 21, score([Ten, Ace, Ace]) =
\* 12 and score([Ten, Ten, Ace, Ace]) = 22.
C17_ScoreIsStandardTotal ==
    op = "Hand::score" =>
        /\ returned = StandardTotal(held_hand)
        /\ held_hand = <<>> => returned = 0
        /\ held_hand = HeartsOf(<<"Ace", "Ten">>) => returned = 21
        /\ held_hand = HeartsOf(<<"Ten", "Ace", "Ace">>) => returned = 12
        /\ held_hand = HeartsOf(<<"Ten", "Ten", "Ace", "Ace">>) => returned = 22

\* the hand [Ten, Ten, Ace, Ace] was scored: both Aces reduced, still bust
C17_Witness ==
    /\ op = "Hand::score"
    /\ held_hand = HeartsOf(<<"Ten", "Ten", "Ace", "Ace">>)
    /\ returned = 22

\* the hands that hold the cards of h in another order
Reorderings(h) ==
    { [i \in 1..Len(h) |-> h[p[i]]] : p \in Permutations(1..Len(h)) }

\* C18: the score of a hand does not depend on the order of its cards: the
\* hands that hold the same cards in any order have the same score.
C18_ScoreIgnoresOrder ==
    op = "Hand::score" =>
        \A other \in Reorderings(held_hand) : score(other) = returned

\* a soft hand that starts with an Ace and ends with a Ten was scored
C18_Witness ==
    /\ op = "Hand::score"
    /\ Len(held_hand) >= 3
    /\ held_hand[1].rank = "Ace"
    /\ held_hand[Len(held_hand)].rank = "Ten"
    /\ HardTotal(held_hand) > 21
    /\ returned <= 21

\* C19: Deck::deal on a non-empty deck [c1, c2, ..., cn] returns the card c1
\* and the deck [c2, ..., cn], the order of the remaining cards kept, and
\* leaves the deck it was called on unchanged.
C19_DeckDealTakesFront ==
    [][ (op' = "Deck::deal" /\ held_deck # <<>>) =>
          /\ err' = "None"
          /\ returned'.value.card = held_deck[1]
          /\ returned'.value.deck = [i \in 1..(Len(held_deck) - 1) |-> held_deck[i + 1]]
          /\ held_deck' = held_deck ]_vars

\* a card was dealt from a deck whose first and last cards differ
C19_Witness ==
    /\ op = "Deck::deal" /\ Succeeded
    /\ Len(held_deck) >= 3
    /\ held_deck[1] # held_deck[Len(held_deck)]
    /\ returned.value.card = held_deck[1]

\* the suits of the cards of one rank, in deck order
SuitsOfRank(cards, rank) ==
    LET of_rank == SelectSeq(cards, LAMBDA c : c.rank = rank)
    IN  [i \in 1..Len(of_rank) |-> of_rank[i].suit]

\* C20: Deck::standard_deck returns exactly 52 cards holding each (suit,
\* rank) combination exactly once, the suits of every rank appearing in the
\* order Heart, Diamond, Spade, Club.
C20_StandardDeck ==
    op = "Deck::standard_deck" =>
        /\ Len(returned) = 52
        /\ \A s \in {"Heart", "Diamond", "Spade", "Club"} :
             \A r \in Range(Ranks) :
                Cardinality({ i \in 1..Len(returned) :
                                 returned[i] = [suit |-> s, rank |-> r] }) = 1
        /\ \A r \in Range(Ranks) :
             SuitsOfRank(returned, r) = <<"Heart", "Diamond", "Spade", "Club">>

\* standard_deck was called and returned a deck that ends with the Club Ace
C20_Witness ==
    /\ op = "Deck::standard_deck"
    /\ returned # <<>>
    /\ returned[Len(returned)] = [suit |-> "Club", rank |-> "Ace"]

----------------------------------------------------------------------------
(* Deck::shuffle and GameState::new                                        *)

Count(cards, card) == Cardinality({ i \in DOMAIN cards : cards[i] = card })

\* the same cards with the same multiplicities, hence the same length
IsPermutationOf(a, b) ==
    /\ Len(a) = Len(b)
    /\ \A card \in Range(a) \cup Range(b) : Count(a, card) = Count(b, card)

\* C21: whatever order the random source chooses, Deck::shuffle returns a
\* deck with the same cards in the same multiplicities and of the same length
\* as the deck it is called on, and that deck stays as it was.
C21_ShuffleIsPermutation ==
    [][op' = "Deck::shuffle" =>
          /\ IsPermutationOf(returned', held_deck)
          /\ held_deck' = held_deck]_vars

\* a deck holding a card twice has come back from shuffle in another order
C21_Witness ==
    /\ op = "Deck::shuffle"
    /\ returned # held_deck
    /\ Len(held_deck) >= 3
    /\ \E i, j \in DOMAIN held_deck : i # j /\ held_deck[i] = held_deck[j]

\* C22: GameState::new() yields a Ready state with an empty player hand, an
\* empty dealer hand and a deck that is a permutation of the 52-card
\* standard deck.
C22_NewGameIsReadyWithShuffledDeck ==
    op = "new" =>
        /\ state.tag = "Ready"
        /\ state.ctx.player_hand = Hand_new
        /\ state.ctx.dealer_hand = DealerHand_new
        /\ Len(state.ctx.deck) = 52
        /\ IsPermutationOf(state.ctx.deck, standard_deck)

\* a new game whose deck is not in the order of the standard deck
C22_Witness ==
    /\ op = "new"
    /\ state.tag = "Ready"
    /\ state.ctx.deck # standard_deck

----------------------------------------------------------------------------
(* Hand and DealerHand                                                     *)

\* C23: Hand::add and DealerHand::add return the hand they are called on
\* followed by the new card and leave that hand as it was; and across every
\* successful hit or stand the player hand and the dealer hand of the old
\* state are prefixes of those of the new state.
C23_HandsAreAppendOnly ==
    [][ /\ op' \in {"Hand::add", "DealerHand::add"} =>
            /\ held_hand' = held_hand
            /\ \E card \in HandCards : returned' = held_hand \o <<card>>
        /\ (op' \in {"hit", "stand"} /\ err' = "None") =>
            /\ IsPrefix(state.ctx.player_hand, state'.ctx.player_hand)
            /\ IsPrefix(state.ctx.dealer_hand, state'.ctx.dealer_hand) ]_vars

\* a stand after which both hands of the game are longer than they were dealt
C23_Witness ==
    /\ op = "stand"
    /\ Succeeded
    /\ Len(state.ctx.player_hand) > 2
    /\ Len(state.ctx.dealer_hand) > 2

\* C24: hole_card returns the first card added to a DealerHand and upcard the
\* second; each returns None while the hand is too short (no card, fewer
\* than two cards); a card added later changes neither.
C24_HoleCardAndUpcard ==
    [][ /\ op' = "DealerHand::add" =>
            LET before == Len(DealerHand_cards(held_hand))
                added  == DealerHand_cards(returned')[before + 1]
            IN  /\ hole_card(returned') =
                       IF before = 0 THEN added ELSE hole_card(held_hand)
                /\ upcard(returned') =
                       IF before = 0 THEN None
                       ELSE IF before = 1 THEN added ELSE upcard(held_hand)
                /\ before = 0 => hole_card(held_hand) = None
                /\ before < 2 => upcard(held_hand) = None
        /\ op' = "DealerHand::hole_card" =>
            returned' = IF Len(DealerHand_cards(held_hand)) < 1 THEN None
                        ELSE Head(DealerHand_cards(held_hand))
        /\ op' = "DealerHand::upcard" =>
            returned' = IF Len(DealerHand_cards(held_hand)) < 2 THEN None
                        ELSE Head(Tail(DealerHand_cards(held_hand))) ]_vars

\* upcard is read on a hand of three different cards
C24_Witness ==
    /\ op = "DealerHand::upcard"
    /\ Len(held_hand) = 3
    /\ Cardinality(Range(held_hand)) = 3
    /\ returned = held_hand[2]

\* Hand::new() followed by one Hand::add per card
RECURSIVE HandFrom(_)
HandFrom(cards) ==
    IF cards = <<>> THEN Hand_new
    ELSE Hand_add(HandFrom(SubSeq(cards, 1, Len(cards) - 1)), cards[Len(cards)])

\* C25: the score of a DealerHand counts its hole card: it equals the score
\* of the plain Hand built from the same cards.
C25_DealerScoreIsHandScore ==
    op = "DealerHand::score" =>
        returned = score(HandFrom(DealerHand_cards(held_hand)))

\* the score of a dealer hand whose hole card is worth something is read
C25_Witness ==
    /\ op = "DealerHand::score"
    /\ Len(held_hand) >= 2
    /\ returned = 20

----------------------------------------------------------------------------
(* The hands of a dealt round                                              *)

\* C26: in every state other than Ready reached from GameState::new() the
\* dealer hand and the player hand hold at least two cards each, so that
\* hole_card() and upcard() are defined and no unwrap on them fails: no call
\* panics, every ShowDealerHoleCard carries a card and every NewHand a dealer
\* hand with an upcard.
C26_DealtHandsHoldTwoCards ==
    /\ err # "Panic"
    /\ state.tag # "Ready" =>
        /\ Len(state.ctx.player_hand) >= 2
        /\ Len(state.ctx.dealer_hand) >= 2
        /\ hole_card(state.ctx.dealer_hand) # None
        /\ upcard(state.ctx.dealer_hand) # None
    /\ \A i \in DOMAIN actions :
        /\ actions[i].type = "ShowDealerHoleCard" => actions[i].card # None
        /\ actions[i].type = "NewHand" => upcard(actions[i].dealer_hand) # None

\* the player has bust: hit has unwrapped the hole card of the dealer
C26_Witness ==
    /\ op = "hit"
    /\ Succeeded
    /\ state.tag = "DealerWins"
    /\ \E i \in DOMAIN actions : actions[i].type = "ShowDealerHoleCard"

----------------------------------------------------------------------------
(* The predicates of a Context                                             *)

\* C28 as the specification words it: player_wins holds exactly when the
\* player score is greater than the dealer score, or the dealer has busted
\* while the player has not.
C28_PlayerWinsUnlessPlayerBusts ==
    op = "Context::player_wins" =>
        (returned <=> \/ player_score(state.ctx) > dealer_score(state.ctx)
                      \/ dealer_busts(state.ctx) /\ ~player_busts(state.ctx))

\* C28: player_wins holds exactly when the player's total is greater than the
\* dealer's, or the dealer's total is over 21, whether the player has busted
\* or not.
C28_PlayerWinsOnScoreOrDealerBust ==
    op = "Context::player_wins" =>
        (returned <=> \/ StandardTotal(state.ctx.player_hand) >
                             StandardTotal(state.ctx.dealer_hand)
                      \/ StandardTotal(state.ctx.dealer_hand) > 21)

\* player_wins holds of a context in which both have busted and the player's
\* score is not the greater
C28_Witness ==
    /\ op = "Context::player_wins"
    /\ returned = TRUE
    /\ player_busts(state.ctx)
    /\ dealer_busts(state.ctx)
    /\ player_score(state.ctx) <= dealer_score(state.ctx)

----------------------------------------------------------------------------
(* Where the blackjack predicates are evaluated                            *)

\* the hands on which the call of this step evaluates player_blackjack or
\* dealer_blackjack, when the random source gives order
BlackjackEvaluated(order) ==
    CASE op' = "deal"  -> blackjack_evaluated_by_deal(state, order)
      [] op' = "hit"   -> blackjack_evaluated_by_hit(state)
      [] op' = "stand" -> blackjack_evaluated_by_stand(state)
      [] OTHER         -> {}

\* C29 as the specification words it: every hand on which a blackjack
\* predicate is evaluated during deal, hit or stand has exactly two cards.
C29_BlackjackOnlyOnTwoCards ==
    [][\A order \in OrdersDrawn(state) :
           \A h \in BlackjackEvaluated(order) : Len(h) = 2]_vars

\* C29: deal evaluates the blackjack predicates on the two hands it has just
\* dealt, of two cards each; hit evaluates player_blackjack on the player's
\* hand after the card it drew, of three cards or more; stand evaluates
\* neither predicate.
C29_BlackjackEvaluations ==
    [][\A order \in OrdersDrawn(state) :
        /\ op' = "deal" =>
              /\ \A h \in BlackjackEvaluated(order) : Len(h) = 2
              /\ err' = "None" => BlackjackEvaluated(order) # {}
        /\ op' = "hit" =>
              /\ \A h \in BlackjackEvaluated(order) :
                    /\ Len(h) >= 3
                    /\ h = Append(state.ctx.player_hand, Head(state.ctx.deck))
              /\ err' = "None" => BlackjackEvaluated(order) # {}
        /\ op' = "stand" => BlackjackEvaluated(order) = {} ]_vars

\* a hit has evaluated player_blackjack on a hand of three cards
C29_Witness ==
    /\ op = "hit"
    /\ Succeeded
    /\ Len(state.ctx.player_hand) = 3

----------------------------------------------------------------------------
(* The length of a round                                                   *)

\* the successful hits of the round: each has added one card to the two that
\* deal gave the player
HitsTaken ==
    IF state.tag = "Ready" THEN 0 ELSE Len(state.ctx.player_hand) - 2

\* C30: in a round dealt from a full deck the player hits at most 9 times:
\* after the ninth successful hit, at the latest, the state is terminal.
C30_AtMostNineHits ==
    /\ HitsTaken <= 9
    /\ Waiting => HitsTaken < 9

\* the ninth hit of a round has ended it
C30_Witness ==
    /\ op = "hit"
    /\ Succeeded
    /\ HitsTaken = 9
    /\ state.tag \in Terminal

----------------------------------------------------------------------------
(* Errors and the action list                                              *)

\* C31: when the card hit draws brings the player to 21 and the dealer then
\* runs out of cards below 17, hit returns EmptyDeck with no state and no
\* actions: the caller still holds the WaitingForPlayer state it called hit
\* on, without the drawn card.
C31_HitIsAllOrNothing ==
    [][ ( /\ HitDraws
          /\ score(HandAfterHit) = 21
          /\ DealerExhausts(Context(Tail(state.ctx.deck), HandAfterHit,
                                    state.ctx.dealer_hand)) )
        => /\ err' = "EmptyDeck"
           /\ actions' = <<>>
           /\ state' = state
           /\ state'.tag = "WaitingForPlayer" ]_vars

\* a hit has failed although the deck still held the card that makes 21
C31_Witness ==
    /\ op = "hit" /\ err = "EmptyDeck" /\ Waiting
    /\ state.ctx.deck # <<>>
    /\ score(HandAfterHit) = 21
    /\ actions = <<>>

\* a successful call of one of the three transition functions has returned
Returned == op \in {"deal", "hit", "stand"} /\ Succeeded

\* the positions of the action list that hold an action of one of the types
ActionsOfType(types) == { i \in DOMAIN actions : actions[i].type \in types }

\* C32: the action list of a successful deal, hit or stand holds exactly one
\* resolution action when the returned state is terminal, tagged like the
\* state, and none when the returned state is WaitingForPlayer.
C32_OneResolutionAction ==
    Returned =>
        IF state.tag \in Terminal
        THEN /\ Cardinality(ActionsOfType(Terminal)) = 1
             /\ \A i \in ActionsOfType(Terminal) : actions[i].type = state.tag
        ELSE ActionsOfType(Terminal) = {}

\* a round has ended in a draw
C32_Witness ==
    /\ Returned
    /\ state.tag = "Draw"
    /\ \E i \in DOMAIN actions : actions[i].type = "Draw"

\* C33: a successful deal, hit or stand emits ShowDealerHoleCard exactly when
\* the returned state is terminal, then exactly once, and it carries the
\* first card of the dealer hand: the second card deal took from the deck,
\* which no hit or stand moves.
C33_HoleCardShownAtResolution ==
    [][ (op' \in {"deal", "hit", "stand"} /\ err' = "None") =>
        /\ Cardinality({ i \in DOMAIN actions' :
                            actions'[i].type = "ShowDealerHoleCard" })
               = IF state'.tag \in Terminal THEN 1 ELSE 0
        /\ \A i \in DOMAIN actions' :
               actions'[i].type = "ShowDealerHoleCard" =>
                   actions'[i].card = state'.ctx.dealer_hand[1]
        /\ (op' = "deal" /\ state.tag = "Ready") =>
               state'.ctx.dealer_hand[1] = state.ctx.deck[2]
        /\ op' \in {"hit", "stand"} =>
               state'.ctx.dealer_hand[1] = state.ctx.dealer_hand[1] ]_vars

\* the hole card is shown after the dealer has drawn, and differs from the
\* upcard
C33_Witness ==
    /\ op = "stand" /\ Succeeded
    /\ Len(state.ctx.dealer_hand) > 2
    /\ state.ctx.dealer_hand[1] # state.ctx.dealer_hand[2]
    /\ \E i \in DOMAIN actions :
           /\ actions[i].type = "ShowDealerHoleCard"
           /\ actions[i].card = state.ctx.dealer_hand[1]

\* C34: an action list returned by deal, hit or stand holds at most one
\* NewPlayerCard and at most one NewDealerCards, and where it holds both the
\* NewPlayerCard comes first, which is the order the comparison of
\* sort_actions asks for.
C34_PlayerCardBeforeDealerCards ==
    Returned =>
        /\ Cardinality(ActionsOfType({"NewPlayerCard"})) <= 1
        /\ Cardinality(ActionsOfType({"NewDealerCards"})) <= 1
        /\ \A i \in ActionsOfType({"NewPlayerCard"}) :
               \A j \in ActionsOfType({"NewDealerCards"}) : i < j
        /\ \A i, j \in DOMAIN actions :
               i < j => SortedBefore(actions[i], actions[j])

\* a hit to 21 after which the dealer drew
C34_Witness ==
    /\ op = "hit" /\ Succeeded
    /\ ActionsOfType({"NewPlayerCard"}) # {}
    /\ ActionsOfType({"NewDealerCards"}) # {}

----------------------------------------------------------------------------
(* The states of a game                                                    *)

\* C35: in every WaitingForPlayer state reached from GameState::new() the
\* player's score is at most 20, the dealer holds exactly two cards and the
\* dealer's score is not 21.
C35_WaitingForPlayerIsOpen ==
    Waiting =>
        /\ player_score(state.ctx) <= 20
        /\ Len(state.ctx.dealer_hand) = 2
        /\ dealer_score(state.ctx) # 21

\* the player has hit and may hit again
C35_Witness ==
    /\ op = "hit" /\ Succeeded /\ Waiting
    /\ Len(state.ctx.player_hand) >= 3

\* C36: every terminal state reached from GameState::new() agrees with its
\* scores: PlayerWins has the player at 21 or less and the dealer bust or
\* below the player; DealerWins has the player bust, or the dealer at 21 or
\* less and above the player; Draw has equal scores of 21 or less.
C36_OutcomeAgreesWithScores ==
    LET p == player_score(state.ctx)
        d == dealer_score(state.ctx)
    IN  /\ state.tag = "PlayerWins" => p <= 21 /\ (d > 21 \/ p > d)
        /\ state.tag = "DealerWins" => p > 21 \/ (d <= 21 /\ d > p)
        /\ state.tag = "Draw" => p = d /\ p <= 21

\* the dealer has bust and the player has won with the lower score
C36_Witness ==
    /\ state.tag = "PlayerWins"
    /\ dealer_score(state.ctx) > 21
    /\ player_score(state.ctx) < dealer_score(state.ctx)

\* C37: no successful deal, hit or stand returns a Ready state: each returns
\* WaitingForPlayer, DealerWins, PlayerWins or Draw, and Ready is held only
\* as the value of GameState::new().
C37_NoTransitionReturnsReady ==
    [][ /\ (op' \in {"deal", "hit", "stand"} /\ err' = "None") =>
              state'.tag \in {"WaitingForPlayer"} \cup Terminal
        /\ state'.tag = "Ready" => (state.tag = "Ready" /\ state' = state) ]_vars

\* deal on a terminal state has returned the dealt state of a new round
C37_Witness ==
    /\ op = "deal" /\ Succeeded
    /\ state.tag # "Ready"
    /\ Len(state.ctx.deck) = 48

----------------------------------------------------------------------------
(* The width of a Score                                                    *)

\* C39: for every player or dealer hand of a state reached from
\* GameState::new(), the card values with every Ace at 11 add up to 255 at
\* most, so the u8 sum of Hand::score does not overflow.
C39_ScoreFitsU8 ==
    /\ SumValues(state.ctx.player_hand) <= 255
    /\ SumValues(state.ctx.dealer_hand) <= 255

\* the longest hand of the game: four Aces at 11 among its eleven cards
C39_Witness ==
    /\ Len(state.ctx.player_hand) = 11
    /\ SumValues(state.ctx.player_hand) > 60

----------------------------------------------------------------------------
(* The dealer's loop                                                       *)

\* C38: play_dealer_hand terminates: every iteration moves one card from the
\* deck to the dealer, so it draws no more cards than the deck holds, and it
\* returns either EmptyDeck, with the deck empty and the dealer below 17, or
\* a context whose dealer score is 17 or more, as the function stand calls.
C38_PlayDealerHandTerminates ==
    /\ <>(op = "return")
    /\ [][ (Playing /\ op' = "play_dealer_hand") =>
             /\ state.ctx.deck # <<>>
             /\ state'.ctx.deck = Tail(state.ctx.deck)
             /\ state'.ctx.dealer_hand =
                    Append(state.ctx.dealer_hand, Head(state.ctx.deck))
             /\ play_dealer_hand(state'.ctx) = play_dealer_hand(state.ctx) ]_vars
    /\ [](op = "return" =>
             IF err = "None"
             THEN /\ dealer_score(state.ctx) >= 17
                  /\ play_dealer_hand(state.ctx) = Ok(state.ctx)
             ELSE /\ err = "EmptyDeck"
                  /\ state.ctx.deck = <<>>
                  /\ dealer_score(state.ctx) < 17)

\* the loop has returned with EmptyDeck after a card that lowered the
\* dealer's score
C38_Witness ==
    /\ op = "return"
    /\ err = "EmptyDeck"
    /\ LET h == state.ctx.dealer_hand IN
       \E k \in 2..(Len(h) - 1) :
           score(SubSeq(h, 1, k + 1)) < score(SubSeq(h, 1, k))

----------------------------------------------------------------------------
(* The Godot front end                                                     *)

\* C40: _on_stand_pressed completes without failing whenever stand succeeds
\* on the WaitingForPlayer state the node holds, the stands on which the
\* dealer draws no card included.
C40_StandPressedCompletes ==
    [][ (op' = "_on_stand_pressed" /\ IsOk(stand(state))) => err' = "None" ]_vars

====
